---- MODULE Spec2Model ----
(***************************************************************************)
(* GameLauncher (main/launcher/gameLauncher.ts): executable resolution,    *)
(* path validation and supervision of the spawned game processes.          *)
(*                                                                         *)
(* Strings are tuples of one-character strings, so that the string tests   *)
(* of the source (startsWith, includes, the dangerous-character regex,     *)
(* path.normalize, path.basename, path.extname) are computed character by  *)
(* character.  The platform modelled is the Unix one (process.platform is  *)
(* not 'win32', path is path.posix).                                       *)
(***************************************************************************)
EXTENDS Integers, Sequences, FiniteSets, TLC

VARIABLES
    runningGames,   \* Map<number, ChildProcess>: gameId -> process slot
    procs,          \* the ChildProcess objects that can still emit events
    pending,        \* launchGame calls suspended at await findExecutable
    disk,           \* the file system: which of Disks the files are in
    lastOp,         \* the last call or event and what its caller saw
    attempts,       \* RateLimit.attempts: key -> { count, resetTime }
    clock,          \* Date.now(), in units of WindowMs ticks to a window
    grants,         \* key -> the isAllowed calls answered true in its window
    authenticatedUsers, \* the set of sender ids of F95LauncherApp
    isAuthenticated,    \* AuthManager.isAuthenticated
    loginPending,   \* sender id -> auth:login requests suspended at await login
    ipc             \* the last IPC request or RateLimit call and its answer

\* the variables of the launcher
launcherVars == <<runningGames, procs, pending, disk, lastOp>>

\* the variables of the main process around it
appVars == <<attempts, clock, grants, authenticatedUsers, isAuthenticated,
             loginPending, ipc>>

vars == <<runningGames, procs, pending, disk, lastOp, attempts, clock, grants,
          authenticatedUsers, isAuthenticated, loginPending, ipc>>

----------------------------------------------------------------------------
(* Strings                                                                 *)

Empty == <<>>

Slash == "/"

Dot == "."

\* String.prototype.startsWith
StartsWith(s, p) ==
    /\ Len(p) <= Len(s)
    /\ SubSeq(s, 1, Len(p)) = p

\* String.prototype.endsWith
EndsWith(s, p) ==
    /\ Len(p) <= Len(s)
    /\ SubSeq(s, Len(s) - Len(p) + 1, Len(s)) = p

\* String.prototype.includes
Includes(s, sub) ==
    \E i \in 1..(Len(s) - Len(sub) + 1) : SubSeq(s, i, i + Len(sub) - 1) = sub

\* the characters of s, as a set
Chars(s) == { s[i] : i \in 1..Len(s) }

\* String.prototype.split('/')
RECURSIVE SplitFrom(_, _, _)
SplitFrom(s, i, cur) ==
    IF i > Len(s) THEN <<cur>>
    ELSE IF s[i] = Slash THEN <<cur>> \o SplitFrom(s, i + 1, Empty)
    ELSE SplitFrom(s, i + 1, Append(cur, s[i]))

Split(s) == SplitFrom(s, 1, Empty)

\* Array.prototype.join('/')
RECURSIVE JoinSegs(_)
JoinSegs(segs) ==
    IF segs = <<>> THEN Empty
    ELSE IF Len(segs) = 1 THEN segs[1]
    ELSE segs[1] \o <<Slash>> \o JoinSegs(Tail(segs))

----------------------------------------------------------------------------
(* path (posix)                                                            *)

\* normalizeString: drops empty and '.' segments and resolves '..'
RECURSIVE NormSegs(_, _, _)
NormSegs(segs, acc, abs) ==
    IF segs = <<>> THEN acc
    ELSE LET s == Head(segs)
             rest == Tail(segs)
         IN IF s = Empty \/ s = <<Dot>> THEN NormSegs(rest, acc, abs)
            ELSE IF s = <<Dot, Dot>>
                 THEN IF acc # <<>> /\ acc[Len(acc)] # <<Dot, Dot>>
                      THEN NormSegs(rest, SubSeq(acc, 1, Len(acc) - 1), abs)
                      ELSE IF abs THEN NormSegs(rest, acc, abs)
                           ELSE NormSegs(rest, Append(acc, s), abs)
                 ELSE NormSegs(rest, Append(acc, s), abs)

\* path.normalize
Normalize(p) ==
    IF p = Empty THEN <<Dot>>
    ELSE LET abs == p[1] = Slash
             trailing == p[Len(p)] = Slash
             body == JoinSegs(NormSegs(Split(p), <<>>, abs))
         IN IF body = Empty
            THEN IF abs THEN <<Slash>>
                 ELSE IF trailing THEN <<Dot, Slash>> ELSE <<Dot>>
            ELSE (IF abs THEN <<Slash>> ELSE Empty) \o body
                 \o (IF trailing THEN <<Slash>> ELSE Empty)

\* path.join(a, b)
PathJoin(a, b) ==
    IF a = Empty /\ b = Empty THEN <<Dot>>
    ELSE IF a = Empty THEN Normalize(b)
    ELSE IF b = Empty THEN Normalize(a)
    ELSE Normalize(a \o <<Slash>> \o b)

\* s without its trailing slashes
RECURSIVE StripTrailing(_)
StripTrailing(s) ==
    IF s # Empty /\ s[Len(s)] = Slash
    THEN StripTrailing(SubSeq(s, 1, Len(s) - 1))
    ELSE s

\* path.basename
Basename(p) ==
    LET segs == Split(StripTrailing(p))
    IN segs[Len(segs)]

\* the position of the last '.' of s, 0 when it has none
LastDot(s) ==
    LET dots == { i \in 1..Len(s) : s[i] = Dot }
    IN IF dots = {} THEN 0 ELSE CHOOSE i \in dots : \A j \in dots : j <= i

\* path.extname
Extname(p) ==
    LET b == Basename(p)
        d == LastDot(b)
    IN IF d <= 1 \/ b = <<Dot, Dot>> THEN Empty ELSE SubSeq(b, d, Len(b))

----------------------------------------------------------------------------
(* Literals of the source                                                  *)

S_start == <<"s", "t", "a", "r", "t">>

S_launcher == <<"l", "a", "u", "n", "c", "h", "e", "r">>

S_game == <<"g", "a", "m", "e">>

S_run == <<"r", "u", "n">>

S_ext_sh == <<".", "s", "h">>

S_ext_exe == <<".", "e", "x", "e">>

S_ext_py == <<".", "p", "y">>

S_linux == <<"l", "i", "n", "u", "x">>

S_game_sh == <<"g", "a", "m", "e", ".", "s", "h">>

S_start_sh == <<"s", "t", "a", "r", "t", ".", "s", "h">>

S_run_sh == <<"r", "u", "n", ".", "s", "h">>

S_launcher_sh == <<"l", "a", "u", "n", "c", "h", "e", "r", ".", "s", "h">>

S_renpy_sh == <<"r", "e", "n", "p", "y", ".", "s", "h">>

S_renpy64 == <<"l", "i", "b", "/", "l", "i", "n", "u", "x", "-", "x", "8", "6", "_", "6", "4", "/", "r", "e", "n", "p", "y">>

S_renpy32 == <<"l", "i", "b", "/", "l", "i", "n", "u", "x", "-", "i", "6", "8", "6", "/", "r", "e", "n", "p", "y">>

\* the backquote character (the lexer of TLA+ has no backquote in strings)
Backquote == "backquote"

\* const dangerousChars = /[;&|<backquote>$(){}[\]<>]/
dangerousChars == {";", "&", "|", Backquote, "$", "(", ")", "{", "}", "[", "]", "<", ">"}

UpperLetters == <<"A", "B", "C", "D", "E", "F", "G", "H", "I", "J", "K", "L", "M",
                  "N", "O", "P", "Q", "R", "S", "T", "U", "V", "W", "X", "Y", "Z">>

LowerLetters == <<"a", "b", "c", "d", "e", "f", "g", "h", "i", "j", "k", "l", "m",
                  "n", "o", "p", "q", "r", "s", "t", "u", "v", "w", "x", "y", "z">>

Digits == {"0", "1", "2", "3", "4", "5", "6", "7", "8", "9"}

\* String.prototype.toLowerCase
ToLowerCase(s) ==
    [i \in 1..Len(s) |->
        IF \E k \in 1..Len(UpperLetters) : UpperLetters[k] = s[i]
        THEN LowerLetters[CHOOSE k \in 1..Len(UpperLetters) : UpperLetters[k] = s[i]]
        ELSE s[i]]

IsAlnum(c) == c \in Digits \/ \E k \in 1..Len(LowerLetters) : LowerLetters[k] = c

\* name.toLowerCase().replace(/[^a-z0-9]/g, "")
Slug(name) == SelectSeq(ToLowerCase(name), IsAlnum)

----------------------------------------------------------------------------
(* The file system                                                         *)

\* a regular file; content is what the sniffing of findLinuxExecutables sees:
\* "script" holds '#!/', 'python' or 'renpy', "data" holds none of them,
\* "unreadable" makes fs.readFile reject
RegularFile(content) == [kind |-> "file", content |-> content]

Directory == [kind |-> "dir", content |-> "none"]

\* a directory that fs.readdir rejects (EACCES)
UnreadableDirectory == [kind |-> "dir", content |-> "unreadable"]

\* fs.readdir(p) fulfils: p is a directory that can be read
Listable(d, p) ==
    /\ StripTrailing(Normalize(p)) \in DOMAIN d
    /\ d[StripTrailing(Normalize(p))] = Directory

\* fs.pathExists / fs.existsSync
PathExists(d, p) == StripTrailing(Normalize(p)) \in DOMAIN d

\* fs.stat / fs.statSync of an existing path
Stat(d, p) == d[StripTrailing(Normalize(p))]

\* the names fs.readdir(dir) lists, as a set
ReaddirNames(d, dir) ==
    LET base == StripTrailing(Normalize(dir)) \o <<Slash>>
    IN { SubSeq(p, Len(base) + 1, Len(p)) :
           p \in { q \in DOMAIN d : /\ StartsWith(q, base)
                                    /\ Len(q) > Len(base)
                                    /\ Slash \notin Chars(SubSeq(q, Len(base) + 1, Len(q))) } }

\* the orders in which fs.readdir may list them
Readdir(d, dir) ==
    LET names == ReaddirNames(d, dir)
        n == Cardinality(names)
    IN { f \in [1..n -> names] : \A i, j \in 1..n : f[i] = f[j] => i = j }

----------------------------------------------------------------------------
(* validateExecutablePath                                                  *)

\* validateExecutablePath without the test of dangerousChars
validateWithoutCharTest(execPath, installPath, d) ==
    LET normalizedExecPath == Normalize(execPath)
        normalizedInstallPath == Normalize(installPath)
    IN IF ~StartsWith(normalizedExecPath, normalizedInstallPath)
       THEN "outside"
       ELSE IF ~PathExists(d, normalizedExecPath)
       THEN "missing"
       ELSE IF Stat(d, normalizedExecPath).kind # "file"
       THEN "notFile"
       ELSE "ok"

\* validateExecutablePath with the test of dangerousChars in front of the
\* test of the prefix
validateCharTestFirst(execPath, installPath, d) ==
    LET normalizedExecPath == Normalize(execPath)
        normalizedInstallPath == Normalize(installPath)
    IN IF Chars(execPath) \cap dangerousChars # {}
       THEN "dangerous"
       ELSE IF ~StartsWith(normalizedExecPath, normalizedInstallPath)
       THEN "outside"
       ELSE IF ~PathExists(d, normalizedExecPath)
       THEN "missing"
       ELSE IF Stat(d, normalizedExecPath).kind # "file"
       THEN "notFile"
       ELSE "ok"

\* "ok", or the reason of the Error thrown
validateExecutablePath(execPath, installPath, d) ==
    LET normalizedExecPath == Normalize(execPath)
        normalizedInstallPath == Normalize(installPath)
    IN IF ~StartsWith(normalizedExecPath, normalizedInstallPath)
       THEN "outside"
       ELSE IF Chars(execPath) \cap dangerousChars # {}
       THEN "dangerous"
       ELSE IF ~PathExists(d, normalizedExecPath)
       THEN "missing"
       ELSE IF Stat(d, normalizedExecPath).kind # "file"
       THEN "notFile"
       ELSE "ok"

----------------------------------------------------------------------------
(* prioritizeExecutables                                                   *)

\* priorityOrder[i](file)
priorityOrder(i, file) ==
    CASE i = 1 -> Includes(file, S_start)
      [] i = 2 -> Includes(file, S_launcher)
      [] i = 3 -> Includes(file, S_game)
      [] i = 4 -> Includes(file, S_run)
      [] i = 5 -> Extname(file) = S_ext_exe
      [] i = 6 -> Extname(file) = S_ext_sh
      [] i = 7 -> ~Includes(file, <<Dot>>)

NumPriorities == 7

\* the comparator of executables.sort returns a negative number for (a, b)
ComesBefore(a, b) ==
    \E i \in 1..NumPriorities :
        /\ priorityOrder(i, a)
        /\ ~priorityOrder(i, b)
        /\ \A j \in 1..(i - 1) : priorityOrder(j, a) = priorityOrder(j, b)

\* x put into an already sorted list, behind the elements it does not precede
RECURSIVE InsertSorted(_, _)
InsertSorted(x, sorted) ==
    IF sorted = <<>> THEN <<x>>
    ELSE IF ComesBefore(x, Head(sorted)) THEN <<x>> \o sorted
    ELSE <<Head(sorted)>> \o InsertSorted(x, Tail(sorted))

\* Array.prototype.sort with that comparator (a stable sort)
RECURSIVE SortFrom(_, _)
SortFrom(rest, sorted) ==
    IF rest = <<>> THEN sorted
    ELSE SortFrom(Tail(rest), InsertSorted(Head(rest), sorted))

prioritizeExecutables(executables) == SortFrom(executables, <<>>)

----------------------------------------------------------------------------
(* findLinuxExecutables                                                    *)

\* the entries of commonExecutables, the two functions applied to
\* { name: path.basename(gamePath) }
commonExecutables(gamePath) ==
    << S_game_sh, S_start_sh, S_run_sh, S_launcher_sh,
       Slug(Basename(gamePath)) \o S_ext_sh,
       Slug(Basename(gamePath)),
       S_renpy_sh, S_renpy64, S_renpy32 >>

\* one of executablePatterns matches the file name:
\* /\.sh$/, /^[^.]+$/, /linux/i, /\.py$/
MatchesPattern(file) ==
    \/ EndsWith(file, S_ext_sh)
    \/ (file # Empty /\ Dot \notin Chars(file))
    \/ Includes(ToLowerCase(file), S_linux)
    \/ EndsWith(file, S_ext_py)

\* a content test that takes a file it cannot read for a match
ContentMatchesOrUnreadable(d, fullPath) ==
    Stat(d, fullPath).content \in {"script", "unreadable"}

\* fs.readFile(fullPath, 'utf8').catch(() => '') holds '#!/', 'python' or 'renpy'
ContentMatches(d, fullPath) == Stat(d, fullPath).content = "script"

\* the paths pushed by the loop over commonExecutables
RECURSIVE CommonHits(_, _, _)
CommonHits(d, gamePath, names) ==
    IF names = <<>> THEN <<>>
    ELSE LET fullPath == PathJoin(gamePath, Head(names))
             rest == CommonHits(d, gamePath, Tail(names))
         IN IF PathExists(d, fullPath) /\ Stat(d, fullPath).kind # "dir"
            THEN <<fullPath>> \o rest
            ELSE rest

\* the paths pushed by the loop over files
RECURSIVE ScanHits(_, _, _)
ScanHits(d, gamePath, files) ==
    IF files = <<>> THEN <<>>
    ELSE LET file == Head(files)
             fullPath == PathJoin(gamePath, file)
             rest == ScanHits(d, gamePath, Tail(files))
         IN IF /\ Stat(d, fullPath).kind # "dir"
               /\ MatchesPattern(file)
               /\ ContentMatches(d, fullPath)
            THEN <<fullPath>> \o rest
            ELSE rest

findLinuxExecutables(d, gamePath, files) ==
    prioritizeExecutables(
        CommonHits(d, gamePath, commonExecutables(gamePath))
        \o ScanHits(d, gamePath, files))

----------------------------------------------------------------------------
(* findExecutable                                                          *)

Resolved(path) == [err |-> "ok", path |-> path, chmod |-> {path}]

Rejected(reason) == [err |-> reason, path |-> Empty, chmod |-> {}]

\* findExecutable returning the last of the sorted candidates
findExecutableReturnsLast(game, d, files) ==
    IF game.installPath = Empty THEN Rejected("noInstallPath")
    ELSE LET normalizedInstallPath == Normalize(game.installPath)
             execPath == PathJoin(normalizedInstallPath, Basename(game.executable))
             executables == findLinuxExecutables(d, normalizedInstallPath, files)
         IN IF ~PathExists(d, normalizedInstallPath)
            THEN Rejected("installPathMissing")
            ELSE IF game.executable # Empty /\ PathExists(d, execPath)
            THEN Resolved(execPath)
            ELSE IF ~Listable(d, normalizedInstallPath)
            THEN Rejected("readdir")
            ELSE IF executables = <<>>
            THEN Rejected("noExecutable")
            ELSE Resolved(executables[Len(executables)])

\* files: what fs.readdir(normalizedInstallPath) lists, in its order
findExecutable(game, d, files) ==
    IF game.installPath = Empty THEN Rejected("noInstallPath")
    ELSE LET normalizedInstallPath == Normalize(game.installPath)
             execPath == PathJoin(normalizedInstallPath, Basename(game.executable))
             executables == findLinuxExecutables(d, normalizedInstallPath, files)
         IN IF ~PathExists(d, normalizedInstallPath)
            THEN Rejected("installPathMissing")
            ELSE IF game.executable # Empty /\ PathExists(d, execPath)
            THEN Resolved(execPath)
            ELSE IF ~Listable(d, normalizedInstallPath)
            THEN Rejected("readdir")
            ELSE IF executables = <<>>
            THEN Rejected("noExecutable")
            ELSE Resolved(executables[1])

----------------------------------------------------------------------------
(* The game records and the file systems of the model                      *)

S_g == <<"/", "g">>

S_rootA == <<"/", "g", "/", "a">>

S_rootAB == <<"/", "g", "/", "a", "b">>

S_hint == <<".", ".", "/", "a", "/", "r", "u", "n", ".", "s", "h">>

S_data == <<"d", "a", "t", "a">>

S_bad_sh == <<"r", ";", ".", "s", "h">>

S_readme == <<"r", "e", "a", "d", "m", "e", ".", "t", "x", "t">>

S_rootStart == <<"/", "g", "/", "s", "t", "a", "r", "t">>

S_rootB == <<"/", "g", "/", "b">>

S_rootOne == <<"/", "g", "/", "o", "n", "e">>

S_rootZz == <<"/", "g", "/", "z", "z">>

S_play == <<"p", "l", "a", "y">>

S_foo_txt == <<"f", "o", "o", ".", "t", "x", "t">>

S_l == <<"/", "l">>

S_rp == <<"r", "p">>

S_rd == <<"r", "d">>

S_x == <<"x">>

S_py == <<"p", "y">>

S_docs == <<"d", "o", "c", "s">>

S_renpy == <<"r", "e", "n", "p", "y">>

S_game_py == <<"g", "a", "m", "e", ".", "p", "y">>

S_notes == <<"n", "o", "t", "e", "s", ".", "t", "x", "t">>

\* LibraryGame records handed to the launcher; Empty stands for an absent field
Games ==
    << [id |-> 1, installed |-> TRUE, installPath |-> S_rootA, executable |-> Empty],
       [id |-> 2, installed |-> TRUE, installPath |-> S_rootAB, executable |-> S_hint],
       [id |-> 3, installed |-> FALSE, installPath |-> Empty, executable |-> Empty] >>

GameIds == { Games[k].id : k \in DOMAIN Games }

S_subshell == <<"$", "(", "x", ")">>

\* the path of the entry name of the directory dir
Entry(dir, name) == dir \o <<Slash>> \o name

\* both installs complete; /g/start, /g/b and /g/one are further installs
\* (/g/one holds game.sh only), /l is a library folder with a RenPy game
\* rp, a folder docs of documents, a folder rd that holds nothing but a
\* directory named renpy, and a plain file
Disk1 ==
    (S_g :> Directory) @@ (S_rootA :> Directory) @@ (S_rootAB :> Directory)
    @@ (Entry(S_rootA, S_start_sh) :> RegularFile("script"))
    @@ (Entry(S_rootA, S_run_sh) :> RegularFile("script"))
    @@ (Entry(S_rootA, S_data) :> Directory)
    @@ (Entry(S_rootAB, S_run_sh) :> RegularFile("script"))
    @@ (S_rootStart :> Directory)
    @@ (Entry(S_rootStart, S_start_sh) :> RegularFile("script"))
    @@ (Entry(S_rootStart, S_run_sh) :> RegularFile("script"))
    @@ (S_rootB :> Directory)
    @@ (Entry(S_rootB, S_start_sh) :> RegularFile("script"))
    @@ (Entry(S_rootB, S_run_sh) :> RegularFile("script"))
    @@ (Entry(S_rootB, S_play) :> RegularFile("script"))
    @@ (Entry(S_rootB, S_foo_txt) :> RegularFile("script"))
    @@ (S_rootOne :> Directory)
    @@ (Entry(S_rootOne, S_game_sh) :> RegularFile("script"))
    @@ (S_l :> Directory)
    @@ (Entry(S_l, S_rp) :> Directory)
    @@ (Entry(Entry(S_l, S_rp), S_renpy_sh) :> RegularFile("script"))
    @@ (Entry(S_l, S_docs) :> Directory)
    @@ (Entry(Entry(S_l, S_docs), S_readme) :> RegularFile("data"))
    @@ (Entry(S_l, S_rd) :> Directory)
    @@ (Entry(Entry(S_l, S_rd), S_renpy) :> Directory)
    @@ (Entry(S_l, S_notes) :> RegularFile("data"))

\* the only script of /g/a has a ';' in its name and stands beside a
\* directory named $(x), /g/ab holds no executable, /g/b holds the scripts
\* run and run.sh and a file play that cannot be read, /g/one cannot be
\* read, the only file of /g/start cannot be read; the library folder /l
\* holds the games rp and py and a folder x that cannot be read
Disk2 ==
    (S_g :> Directory) @@ (S_rootA :> Directory) @@ (S_rootAB :> Directory)
    @@ (Entry(S_rootA, S_bad_sh) :> RegularFile("script"))
    @@ (Entry(S_rootA, S_subshell) :> Directory)
    @@ (Entry(S_rootAB, S_readme) :> RegularFile("data"))
    @@ (S_rootStart :> Directory)
    @@ (Entry(S_rootStart, S_play) :> RegularFile("unreadable"))
    @@ (S_rootB :> Directory)
    @@ (Entry(S_rootB, S_run) :> RegularFile("script"))
    @@ (Entry(S_rootB, S_run_sh) :> RegularFile("script"))
    @@ (Entry(S_rootB, S_play) :> RegularFile("unreadable"))
    @@ (S_rootOne :> UnreadableDirectory)
    @@ (S_l :> Directory)
    @@ (Entry(S_l, S_rp) :> Directory)
    @@ (Entry(Entry(S_l, S_rp), S_renpy_sh) :> RegularFile("script"))
    @@ (Entry(S_l, S_x) :> UnreadableDirectory)
    @@ (Entry(S_l, S_py) :> Directory)
    @@ (Entry(Entry(S_l, S_py), S_game_py) :> RegularFile("script"))

Disks == <<Disk1, Disk2>>

\* the launchGame calls that may be suspended at the same time
MaxInFlight == 2

\* the child processes that may be alive at the same time
MaxProcs == 2

Slots == 1..MaxProcs

\* killed is ChildProcess.killed
NoProc == [gameId |-> 0, path |-> Empty, state |-> "none", killed |-> FALSE]

----------------------------------------------------------------------------
(* runningGames: Map<number, ChildProcess>                                 *)

\* new Map()
EmptyMap == [k \in {} |-> 0]

\* Map.prototype.has
MapHas(m, key) == key \in DOMAIN m

\* Map.prototype.set
MapSet(m, key, value) ==
    [k \in DOMAIN m \cup {key} |-> IF k = key THEN value ELSE m[k]]

\* Map.prototype.delete
MapDelete(m, key) == [k \in DOMAIN m \ {key} |-> m[k]]

\* what the caller of an operation, or the listener of an event, observed:
\* path is the executable the operation resolved, installPath the install
\* root it was validated against, chmod the paths it applied
\* fs.chmod(_, 0o755) to, kill what process.kill() did if it was called,
\* slot the ChildProcess the operation created, signalled or heard from,
\* before the table as it was when the operation started
\* err is why findExecutable rejected ("ok" when it resolved), listing the
\* order in which fs.readdir listed the directory the operation scanned,
\* ranked the candidates as prioritizeExecutables returned them, returned
\* the list detectInstalledGames returned
Op(op, gameId, path, result, before) ==
    [op |-> op, gameId |-> gameId, path |-> path, installPath |-> Empty,
     result |-> result, chmod |-> {}, kill |-> "none", slot |-> 0,
     ids |-> {}, before |-> before,
     err |-> "none", listing |-> <<>>, ranked |-> <<>>, returned |-> <<>>]

\* the ids of the windows (webContents) that send IPC requests; the key of
\* the rate limiter is the id of the sender
Senders == {1, 2}

\* no launcher call
NoOp == Op("none", 0, Empty, "none", EmptyMap)

\* an IPC request on a channel, or a call of a RateLimit method, by or for
\* the sender, and what it was answered
Request(channel, senderId, result) ==
    [channel |-> channel, senderId |-> senderId, result |-> result]

NoRequest == Request("none", 0, "none")

Init ==
    /\ runningGames = EmptyMap
    /\ procs = [s \in Slots |-> NoProc]
    /\ pending = [k \in DOMAIN Games |-> 0]
    /\ disk \in DOMAIN Disks
    /\ lastOp = NoOp
    /\ attempts = EmptyMap
    /\ clock = 0
    /\ grants = [key \in Senders |-> 0]
    /\ authenticatedUsers = {}
    /\ isAuthenticated = FALSE
    /\ loginPending = [senderId \in Senders |-> 0]
    /\ ipc = NoRequest

----------------------------------------------------------------------------
(* launchGame                                                              *)

RECURSIVE SumTo(_, _)
SumTo(f, n) == IF n = 0 THEN 0 ELSE f[n] + SumTo(f, n - 1)

\* the number of suspended launchGame calls
InFlight == SumTo(pending, Len(Games))

\* launchGame(Games[k]) from the call to its first await (the two guards,
\* then findExecutable up to await fs.pathExists)
launchGame(k) ==
    LET game == Games[k]
    IN /\ UNCHANGED <<runningGames, procs, disk>>
       /\ IF ~game.installed \/ game.installPath = Empty
          THEN /\ lastOp' = Op("launchGame", game.id, Empty, "NotInstalled", runningGames)
               /\ UNCHANGED pending
          ELSE IF MapHas(runningGames, game.id)
          THEN /\ lastOp' = Op("launchGame", game.id, Empty, "AlreadyRunning", runningGames)
               /\ UNCHANGED pending
          ELSE /\ InFlight < MaxInFlight
               /\ pending' = [pending EXCEPT ![k] = @ + 1]
               /\ lastOp' = Op("launchGame", game.id, Empty, "suspended", runningGames)

\* what child_process.spawn does with a file that passed the validation:
\* "ok" the child runs; "errorEvent" the OS could not start it and the
\* ChildProcess emits 'error' later (ENOENT, EACCES, EAGAIN, ...); "throws"
\* spawn throws (any other errno)
SpawnOutcomes == {"ok", "errorEvent", "throws"}

\* the slot of the ChildProcess object spawn returns
FreeSlot ==
    CHOOSE s \in Slots : procs[s] = NoProc /\ \A t \in Slots : procs[t] = NoProc => s <= t

\* the function f with all its values computed
Table(f) == f @@ EmptyMap

\* the rest of findExecutable and the validation that follows it, for each
\* game, file system and order of the directory listing
AwaitFindExecutable ==
    Table([k \in DOMAIN Games |-> Table([i \in DOMAIN Disks |->
        Table([files \in Readdir(Disks[i], Games[k].installPath) |->
            LET found == findExecutable(Games[k], Disks[i], files)
            IN [found |-> found,
                valid |-> IF found.err = "ok"
                          THEN validateExecutablePath(found.path, Games[k].installPath, Disks[i])
                          ELSE "none"]])])])

\* launchGame without the call of validateExecutablePath
launchGameSkipsValidation(k, found, valid, outcome) ==
    LET game == Games[k]
    IN /\ pending[k] > 0
       /\ pending' = [pending EXCEPT ![k] = @ - 1]
       /\ UNCHANGED disk
       /\ IF found.err # "ok"
          THEN /\ lastOp' = [Op("launchGameResume", game.id, Empty, "ResolutionFailed", runningGames)
                               EXCEPT !.chmod = found.chmod, !.installPath = game.installPath]
               /\ UNCHANGED <<runningGames, procs>>
          ELSE IF outcome = "throws"
          THEN /\ lastOp' = [Op("launchGameResume", game.id, found.path, "SpawnFailed", runningGames)
                               EXCEPT !.chmod = found.chmod, !.installPath = game.installPath]
               /\ UNCHANGED <<runningGames, procs>>
          ELSE /\ \E s \in Slots : procs[s] = NoProc
               /\ procs' = [procs EXCEPT ![FreeSlot] =
                              [gameId |-> game.id, path |-> found.path,
                               state |-> IF outcome = "ok" THEN "running" ELSE "spawnFailed",
                               killed |-> FALSE]]
               /\ runningGames' = MapSet(runningGames, game.id, FreeSlot)
               /\ lastOp' = [Op("launchGameResume", game.id, found.path, "ok", runningGames)
                               EXCEPT !.chmod = found.chmod, !.installPath = game.installPath,
                                      !.slot = FreeSlot]

\* launchGame with runningGames.set moved in front of the validation
launchGameRegistersFirst(k, found, valid, outcome) ==
    LET game == Games[k]
    IN /\ pending[k] > 0
       /\ pending' = [pending EXCEPT ![k] = @ - 1]
       /\ UNCHANGED <<disk, procs>>
       /\ IF found.err # "ok"
          THEN /\ lastOp' = [Op("launchGameResume", game.id, Empty, "ResolutionFailed", runningGames)
                               EXCEPT !.chmod = found.chmod, !.installPath = game.installPath]
               /\ UNCHANGED runningGames
          ELSE /\ runningGames' = MapSet(runningGames, game.id, 1)
               /\ lastOp' = [Op("launchGameResume", game.id, found.path,
                                IF valid = "ok" THEN "SpawnFailed" ELSE "SecurityViolation",
                                runningGames)
                               EXCEPT !.chmod = found.chmod, !.installPath = game.installPath]

\* launchGame that returns only when the child it spawned has exited: the
\* exit listener has run by then, and the ChildProcess is gone
launchGameWaitsForExit(k, found, valid, outcome) ==
    LET game == Games[k]
    IN /\ pending[k] > 0
       /\ pending' = [pending EXCEPT ![k] = @ - 1]
       /\ UNCHANGED <<disk, runningGames, procs>>
       /\ IF found.err # "ok"
          THEN lastOp' = [Op("launchGameResume", game.id, Empty, "ResolutionFailed", runningGames)
                            EXCEPT !.chmod = found.chmod, !.installPath = game.installPath]
          ELSE IF valid # "ok"
          THEN lastOp' = [Op("launchGameResume", game.id, found.path, "SecurityViolation", runningGames)
                            EXCEPT !.chmod = found.chmod, !.installPath = game.installPath]
          ELSE IF outcome = "throws"
          THEN lastOp' = [Op("launchGameResume", game.id, found.path, "SpawnFailed", runningGames)
                            EXCEPT !.chmod = found.chmod, !.installPath = game.installPath]
          ELSE lastOp' = [Op("launchGameResume", game.id, found.path, "ok", runningGames)
                            EXCEPT !.chmod = found.chmod, !.installPath = game.installPath]

\* launchGame, lines 22 to 57, given what findExecutable and
\* validateExecutablePath did: spawn, runningGames.set, the two listeners
launchGameAfter(k, found, valid, outcome) ==
    LET game == Games[k]
    IN /\ pending[k] > 0
       /\ pending' = [pending EXCEPT ![k] = @ - 1]
       /\ UNCHANGED disk
       /\ IF found.err # "ok"
          THEN /\ lastOp' = [Op("launchGameResume", game.id, Empty, "ResolutionFailed", runningGames)
                               EXCEPT !.chmod = found.chmod, !.installPath = game.installPath]
               /\ UNCHANGED <<runningGames, procs>>
          ELSE IF valid # "ok"
          THEN /\ lastOp' = [Op("launchGameResume", game.id, found.path, "SecurityViolation", runningGames)
                               EXCEPT !.chmod = found.chmod, !.installPath = game.installPath]
               /\ UNCHANGED <<runningGames, procs>>
          ELSE IF outcome = "throws"
          THEN /\ lastOp' = [Op("launchGameResume", game.id, found.path, "SpawnFailed", runningGames)
                               EXCEPT !.chmod = found.chmod, !.installPath = game.installPath]
               /\ UNCHANGED <<runningGames, procs>>
          ELSE /\ \E s \in Slots : procs[s] = NoProc
               /\ procs' = [procs EXCEPT ![FreeSlot] =
                              [gameId |-> game.id, path |-> found.path,
                               state |-> IF outcome = "ok" THEN "running" ELSE "spawnFailed",
                               killed |-> FALSE]]
               /\ runningGames' = MapSet(runningGames, game.id, FreeSlot)
               /\ lastOp' = [Op("launchGameResume", game.id, found.path, "ok", runningGames)
                               EXCEPT !.chmod = found.chmod, !.installPath = game.installPath,
                                      !.slot = FreeSlot]

\* launchGame(Games[k]) from the completion of findExecutable to its end
launchGameResume(k, files, outcome) ==
    LET r == AwaitFindExecutable[k][disk][files]
    IN launchGameAfter(k, r.found, r.valid, outcome)

----------------------------------------------------------------------------
(* The listeners registered by launchGame                                  *)

\* an exit listener that leaves the entry in runningGames
exitListenerKeepsEntry(s) ==
    /\ procs[s].state = "running"
    /\ procs' = [procs EXCEPT ![s] = NoProc]
    /\ lastOp' = [Op("exit", procs[s].gameId, procs[s].path, "ok", runningGames)
                    EXCEPT !.slot = s]
    /\ UNCHANGED <<runningGames, pending, disk>>

\* an exit listener that raises when it finds no entry to remove
exitListenerRequiresEntry(s) ==
    /\ procs[s].state = "running"
    /\ runningGames' = MapDelete(runningGames, procs[s].gameId)
    /\ procs' = [procs EXCEPT ![s] = NoProc]
    /\ lastOp' = [Op("exit", procs[s].gameId, procs[s].path,
                     IF MapHas(runningGames, procs[s].gameId) THEN "ok" ELSE "throws",
                     runningGames)
                    EXCEPT !.slot = s]
    /\ UNCHANGED <<pending, disk>>

\* gameProcess.on('exit', ...): the child in slot s exits
exitListener(s) ==
    /\ procs[s].state = "running"
    /\ runningGames' = MapDelete(runningGames, procs[s].gameId)
    /\ procs' = [procs EXCEPT ![s] = NoProc]
    /\ lastOp' = [Op("exit", procs[s].gameId, procs[s].path, "ok", runningGames)
                    EXCEPT !.slot = s]
    /\ UNCHANGED <<pending, disk>>

\* gameProcess.on('error', ...): the child in slot s could not be started
errorListener(s) ==
    /\ procs[s].state = "spawnFailed"
    /\ runningGames' = MapDelete(runningGames, procs[s].gameId)
    /\ procs' = [procs EXCEPT ![s] = NoProc]
    /\ lastOp' = [Op("error", procs[s].gameId, procs[s].path, "ok", runningGames)
                    EXCEPT !.slot = s]
    /\ UNCHANGED <<pending, disk>>

----------------------------------------------------------------------------
(* stopGame, isGameRunning, getRunningGames                                *)

\* what process.kill() does: "killed" the signal was sent (returns true);
\* "notKilled" it was not (returns false: no handle, ESRCH, or an 'error'
\* event whose listener deletes the entry that stopGame deletes anyway);
\* "throws" kill throws (EINVAL, ENOSYS).  A ChildProcess that could not be
\* started has no handle: kill returns false
KillOutcomes == {"killed", "notKilled", "throws"}

\* stopGame without the test of the process it looked up: kill is called on
\* undefined, the TypeError is caught and thrown again
stopGameWithoutLookupTest(gameId, outcome) ==
    /\ UNCHANGED <<pending, disk>>
    /\ IF ~MapHas(runningGames, gameId)
       THEN /\ outcome = "notKilled"
            /\ lastOp' = Op("stopGame", gameId, Empty, "throws", runningGames)
            /\ UNCHANGED <<runningGames, procs>>
       ELSE IF outcome = "throws"
       THEN /\ procs[runningGames[gameId]].state = "running"
            /\ lastOp' = [Op("stopGame", gameId, Empty, "throws", runningGames)
                            EXCEPT !.kill = outcome, !.slot = runningGames[gameId]]
            /\ UNCHANGED <<runningGames, procs>>
       ELSE /\ outcome = "killed" => procs[runningGames[gameId]].state = "running"
            /\ procs' = [procs EXCEPT ![runningGames[gameId]].killed = @ \/ outcome = "killed"]
            /\ runningGames' = MapDelete(runningGames, gameId)
            /\ lastOp' = [Op("stopGame", gameId, Empty, "ok", runningGames)
                            EXCEPT !.kill = outcome, !.slot = runningGames[gameId]]

\* stopGame that empties the table (runningGames.clear()) where the code
\* deletes one key
stopGameClearsTable(gameId, outcome) ==
    /\ UNCHANGED <<pending, disk>>
    /\ IF ~MapHas(runningGames, gameId)
       THEN /\ outcome = "notKilled"
            /\ lastOp' = Op("stopGame", gameId, Empty, "ok", runningGames)
            /\ UNCHANGED <<runningGames, procs>>
       ELSE IF outcome = "throws"
       THEN /\ procs[runningGames[gameId]].state = "running"
            /\ lastOp' = [Op("stopGame", gameId, Empty, "throws", runningGames)
                            EXCEPT !.kill = outcome, !.slot = runningGames[gameId]]
            /\ UNCHANGED <<runningGames, procs>>
       ELSE /\ outcome = "killed" => procs[runningGames[gameId]].state = "running"
            /\ procs' = [procs EXCEPT ![runningGames[gameId]].killed = @ \/ outcome = "killed"]
            /\ runningGames' = EmptyMap
            /\ lastOp' = [Op("stopGame", gameId, Empty, "ok", runningGames)
                            EXCEPT !.kill = outcome, !.slot = runningGames[gameId]]

\* stopGame, lines 259 to 271
stopGame(gameId, outcome) ==
    /\ UNCHANGED <<pending, disk>>
    /\ IF ~MapHas(runningGames, gameId)
       THEN /\ outcome = "notKilled"
            /\ lastOp' = Op("stopGame", gameId, Empty, "ok", runningGames)
            /\ UNCHANGED <<runningGames, procs>>
       ELSE IF outcome = "throws"
       THEN /\ procs[runningGames[gameId]].state = "running"
            /\ lastOp' = [Op("stopGame", gameId, Empty, "throws", runningGames)
                            EXCEPT !.kill = outcome, !.slot = runningGames[gameId]]
            /\ UNCHANGED <<runningGames, procs>>
       ELSE /\ outcome = "killed" => procs[runningGames[gameId]].state = "running"
            /\ procs' = [procs EXCEPT ![runningGames[gameId]].killed = @ \/ outcome = "killed"]
            /\ runningGames' = MapDelete(runningGames, gameId)
            /\ lastOp' = [Op("stopGame", gameId, Empty, "ok", runningGames)
                            EXCEPT !.kill = outcome, !.slot = runningGames[gameId]]

isGameRunning(gameId) ==
    /\ lastOp' = Op("isGameRunning", gameId, Empty,
                    IF MapHas(runningGames, gameId) THEN "true" ELSE "false",
                    runningGames)
    /\ UNCHANGED <<runningGames, procs, pending, disk>>

getRunningGames ==
    /\ lastOp' = [Op("getRunningGames", 0, Empty, "ok", runningGames)
                    EXCEPT !.ids = DOMAIN runningGames]
    /\ UNCHANGED <<runningGames, procs, pending, disk>>

----------------------------------------------------------------------------
(* The environment                                                         *)

\* the user, or another program, changes the files of the installs
FsChange ==
    /\ disk' \in DOMAIN Disks \ {disk}
    /\ lastOp' = Op("fsChange", 0, Empty, "ok", runningGames)
    /\ UNCHANGED <<runningGames, procs, pending>>

----------------------------------------------------------------------------
(* validateExecutablePath called on its own                                *)

S_etc_x == <<"/", "e", "t", "c", "/", "x">>

S_up_etc_x == <<".", ".", "/", ".", ".", "/", "e", "t", "c", "/", "x">>

S_up_ab_run == <<".", ".", "/", "a", "b", "/", "r", "u", "n", ".", "s", "h">>

S_nope_sh == <<"n", "o", "p", "e", ".", "s", "h">>

\* candidate paths: files and directories inside /g/a, spelled in several
\* ways, files of the sibling /g/ab, files outside /g
Candidates ==
    { PathJoin(S_rootA, S_run_sh),
      PathJoin(S_rootA, S_start_sh),
      PathJoin(S_rootA, S_data),
      PathJoin(S_rootA, S_nope_sh),
      PathJoin(S_rootA, S_bad_sh),
      PathJoin(S_rootA, S_subshell),
      PathJoin(S_rootAB, S_run_sh),
      PathJoin(S_rootAB, S_readme),
      S_rootA,
      S_etc_x,
      S_etc_x \o <<";">>,
      S_rootA \o <<Slash>> \o S_up_ab_run,
      S_rootA \o <<Slash>> \o S_up_etc_x,
      S_rootA \o <<Slash, Dot, Slash>> \o S_run_sh,
      S_rootA \o <<Slash, Slash>> \o S_run_sh,
      S_rootA \o <<Slash>> \o S_data \o <<Slash, Dot, Dot, Slash>> \o S_run_sh }

\* install roots, with and without a trailing slash
Roots == { S_rootA, S_rootA \o <<Slash>>, S_rootAB, S_g }

\* validateExecutablePath for each candidate, root and file system
ValidateTable ==
    Table([c \in Candidates |-> Table([r \in Roots |->
        Table([i \in DOMAIN Disks |-> validateExecutablePath(c, r, Disks[i])])])])

validateCall(execPath, installPath) ==
    /\ lastOp' = [Op("validateExecutablePath", 0, execPath,
                     ValidateTable[execPath][installPath][disk], runningGames)
                    EXCEPT !.installPath = installPath]
    /\ UNCHANGED <<runningGames, procs, pending, disk>>

----------------------------------------------------------------------------
(* findExecutable and verifyGameInstallation called on their own            *)

S_dotdot == <<".", ".">>

\* the records of Games and further ones: a vanished install, installs whose
\* path holds the word start, with an extensionless script, with game.sh
\* only, and hints that name the parent directory, a directory of the
\* install, a file that is not there
ResolveGames ==
    Games \o
    << [id |-> 4, installed |-> TRUE, installPath |-> S_rootZz, executable |-> Empty],
       [id |-> 5, installed |-> TRUE, installPath |-> S_rootStart, executable |-> Empty],
       [id |-> 6, installed |-> TRUE, installPath |-> S_rootB, executable |-> Empty],
       [id |-> 7, installed |-> TRUE, installPath |-> S_rootOne, executable |-> Empty],
       [id |-> 8, installed |-> TRUE, installPath |-> S_rootAB, executable |-> S_dotdot],
       [id |-> 9, installed |-> TRUE, installPath |-> S_rootA, executable |-> S_data],
       [id |-> 10, installed |-> TRUE, installPath |-> S_rootA, executable |-> S_nope_sh] >>

\* findExecutable returns from its hint branch (lines 98 to 106)
HintTaken(game, d) ==
    /\ game.installPath # Empty
    /\ PathExists(d, Normalize(game.installPath))
    /\ game.executable # Empty
    /\ PathExists(d, PathJoin(Normalize(game.installPath), Basename(game.executable)))

\* findExecutable gets to fs.readdir (line 109) and the listing succeeds
ReaddirDone(game, d) ==
    /\ game.installPath # Empty
    /\ PathExists(d, Normalize(game.installPath))
    /\ ~HintTaken(game, d)
    /\ Listable(d, Normalize(game.installPath))

\* what fs.chmod(_, 0o755) does: "ok", or "fails" (EPERM: the file belongs
\* to another user; EROFS)
ChmodOutcomes == {"ok", "fails"}

\* findExecutable with that outcome of its fs.chmod
AfterChmod(found, chmodOutcome) ==
    IF found.err = "ok" /\ chmodOutcome = "fails" THEN Rejected("chmod") ELSE found

\* verifyGameInstallation without its try and catch
verifyWithoutCatch(game, d, found) ==
    IF game.installPath = Empty \/ ~PathExists(d, game.installPath)
    THEN "false"
    ELSE IF found.err # "ok"
    THEN "throws"
    ELSE IF PathExists(d, found.path) THEN "true" ELSE "false"

\* verifyGameInstallation, given what its call of findExecutable did
verifyGameInstallation(game, d, found) ==
    IF game.installPath = Empty \/ ~PathExists(d, game.installPath)
    THEN "false"
    ELSE IF found.err # "ok"
    THEN "false"
    ELSE IF PathExists(d, found.path) THEN "true" ELSE "false"

\* findExecutable for each record, file system and order of the listing
ResolveTable ==
    Table([k \in DOMAIN ResolveGames |-> Table([i \in DOMAIN Disks |->
        Table([files \in Readdir(Disks[i], ResolveGames[k].installPath) |->
            LET game == ResolveGames[k]
                done == ReaddirDone(game, Disks[i])
            IN [found |-> findExecutable(game, Disks[i], files),
                listing |-> IF done THEN files ELSE <<>>,
                ranked |-> IF done
                           THEN findLinuxExecutables(Disks[i], Normalize(game.installPath), files)
                           ELSE <<>>]])])])

\* findExecutable(ResolveGames[k])
findExecutableCall(k, files, chmodOutcome) ==
    LET r == ResolveTable[k][disk][files]
        found == AfterChmod(r.found, chmodOutcome)
    IN /\ lastOp' = [Op("findExecutable", k, found.path,
                        IF found.err = "ok" THEN "ok" ELSE "throws", runningGames)
                       EXCEPT !.installPath = ResolveGames[k].installPath,
                              !.chmod = found.chmod, !.err = found.err,
                              !.listing = r.listing, !.ranked = r.ranked]
       /\ UNCHANGED <<runningGames, procs, pending, disk>>

\* verifyGameInstallation(ResolveGames[k])
verifyCall(k, files, chmodOutcome) ==
    LET r == ResolveTable[k][disk][files]
        game == ResolveGames[k]
        called == game.installPath # Empty /\ PathExists(Disks[disk], game.installPath)
        found == AfterChmod(r.found, chmodOutcome)
    IN /\ lastOp' = [Op("verifyGameInstallation", k,
                        IF called THEN found.path ELSE Empty,
                        verifyGameInstallation(game, Disks[disk], found), runningGames)
                       EXCEPT !.installPath = game.installPath,
                              !.chmod = IF called THEN found.chmod ELSE {},
                              !.err = found.err,
                              !.listing = IF called THEN r.listing ELSE <<>>]
       /\ UNCHANGED <<runningGames, procs, pending, disk>>

----------------------------------------------------------------------------
(* detectInstalledGames                                                    *)

\* the test of files.some on a Unix platform (line 327)
SignatureTest(file) ==
    \/ EndsWith(file, S_ext_sh)
    \/ Includes(file, S_renpy)
    \/ file = S_game_py

\* hasExecutable for the directory gamePath (lines 320 to 329)
hasExecutable(d, gamePath) ==
    \E file \in ReaddirNames(d, gamePath) : SignatureTest(file)

\* the loop over entries (lines 317 to 335): thrown tells that a readdir of
\* a subdirectory rejected, games is possibleGames at that moment
RECURSIVE DetectLoop(_, _, _, _)
DetectLoop(d, normalizedSearchPath, entries, possibleGames) ==
    IF entries = <<>> THEN [thrown |-> FALSE, games |-> possibleGames]
    ELSE LET gamePath == PathJoin(normalizedSearchPath, Head(entries))
         IN IF Stat(d, gamePath).kind # "dir"
            THEN DetectLoop(d, normalizedSearchPath, Tail(entries), possibleGames)
            ELSE IF ~Listable(d, gamePath)
            THEN [thrown |-> TRUE, games |-> possibleGames]
            ELSE DetectLoop(d, normalizedSearchPath, Tail(entries),
                            IF hasExecutable(d, gamePath)
                            THEN Append(possibleGames, gamePath)
                            ELSE possibleGames)

\* detectInstalledGames without its try and catch
detectWithoutTry(searchPath, d, entries) ==
    LET normalizedSearchPath == Normalize(searchPath)
        loop == DetectLoop(d, normalizedSearchPath, entries, <<>>)
    IN IF ~PathExists(d, normalizedSearchPath)
       THEN [result |-> "ok", games |-> <<>>]
       ELSE IF ~Listable(d, normalizedSearchPath)
       THEN [result |-> "throws", games |-> <<>>]
       ELSE IF loop.thrown
       THEN [result |-> "throws", games |-> <<>>]
       ELSE [result |-> "ok", games |-> loop.games]

\* entries: what fs.readdir(normalizedSearchPath) lists, in its order
detectInstalledGames(searchPath, d, entries) ==
    LET normalizedSearchPath == Normalize(searchPath)
        loop == DetectLoop(d, normalizedSearchPath, entries, <<>>)
    IN IF ~PathExists(d, normalizedSearchPath)
       THEN [result |-> "ok", games |-> <<>>]
       ELSE IF ~Listable(d, normalizedSearchPath)
       THEN [result |-> "ok", games |-> <<>>]
       ELSE [result |-> "ok", games |-> loop.games]

\* search paths: library folders with and without a trailing slash, one
\* that does not exist, a plain file, a folder that cannot be read
SearchPaths ==
    { S_l, S_l \o <<Slash>>, S_g, S_rootZz, Entry(S_l, S_notes), Entry(S_l, S_x) }

\* detectInstalledGames for each search path, file system and listing order
DetectTable ==
    Table([searchPath \in SearchPaths |-> Table([i \in DOMAIN Disks |->
        Table([entries \in (IF Listable(Disks[i], searchPath)
                            THEN Readdir(Disks[i], searchPath) ELSE {<<>>}) |->
            detectInstalledGames(searchPath, Disks[i], entries)])])])

detectCall(searchPath, entries) ==
    LET r == DetectTable[searchPath][disk][entries]
    IN /\ lastOp' = [Op("detectInstalledGames", 0, searchPath, r.result, runningGames)
                       EXCEPT !.listing = entries, !.returned = r.games]
       /\ UNCHANGED <<runningGames, procs, pending, disk>>

Next ==
    \/ \E k \in DOMAIN Games : launchGame(k) /\ UNCHANGED appVars
    \/ \E k \in DOMAIN Games :
         \E files \in DOMAIN AwaitFindExecutable[k][disk] :
           \E outcome \in SpawnOutcomes :
             launchGameResume(k, files, outcome) /\ UNCHANGED appVars
    \/ \E s \in Slots : exitListener(s) /\ UNCHANGED appVars
    \/ \E s \in Slots : errorListener(s) /\ UNCHANGED appVars
    \/ \E gameId \in GameIds : \E outcome \in KillOutcomes :
         stopGame(gameId, outcome) /\ UNCHANGED appVars
    \/ \E gameId \in GameIds : isGameRunning(gameId) /\ UNCHANGED appVars
    \/ getRunningGames /\ UNCHANGED appVars
    \/ FsChange /\ UNCHANGED appVars

Spec == Init /\ [][Next]_vars


\* validateExecutablePath called with any candidate and root, on any file system
NextValidate ==
    \/ FsChange /\ UNCHANGED appVars
    \/ \E execPath \in Candidates : \E installPath \in Roots :
         validateCall(execPath, installPath) /\ UNCHANGED appVars

SpecValidate == Init /\ [][NextValidate]_vars

\* findExecutable, verifyGameInstallation and detectInstalledGames called
\* with any record or search path, on any file system, with any order of
\* the directory listing
NextResolve ==
    \/ FsChange /\ UNCHANGED appVars
    \/ \E k \in DOMAIN ResolveGames :
         \E files \in DOMAIN ResolveTable[k][disk] :
           \E chmodOutcome \in ChmodOutcomes :
             findExecutableCall(k, files, chmodOutcome) /\ UNCHANGED appVars
    \/ \E k \in DOMAIN ResolveGames :
         \E files \in DOMAIN ResolveTable[k][disk] :
           \E chmodOutcome \in ChmodOutcomes :
             verifyCall(k, files, chmodOutcome) /\ UNCHANGED appVars
    \/ \E searchPath \in SearchPaths :
         \E entries \in DOMAIN DetectTable[searchPath][disk] :
           detectCall(searchPath, entries) /\ UNCHANGED appVars

SpecResolve == Init /\ [][NextResolve]_vars

----------------------------------------------------------------------------
(* RateLimit                                                               *)

\* new RateLimit(5, 15 * 60 * 1000)
maxAttempts == 5

\* the length of a window in clock ticks (15 minutes in the program)
windowMs == 2

\* the clock readings of the model
MaxClock == 3

\* isAllowed(key) when Date.now() is now: whether it allows, and the map it
\* leaves
isAllowedOffByOne(att, key, now) ==
    IF ~MapHas(att, key) \/ now > att[key].resetTime
    THEN [allowed |-> TRUE,
          attempts |-> MapSet(att, key, [count |-> 1, resetTime |-> now + windowMs])]
    ELSE IF att[key].count > maxAttempts
    THEN [allowed |-> FALSE, attempts |-> att]
    ELSE [allowed |-> TRUE, attempts |-> [att EXCEPT ![key].count = @ + 1]]

isAllowed(att, key, now) ==
    IF ~MapHas(att, key) \/ now > att[key].resetTime
    THEN [allowed |-> TRUE,
          attempts |-> MapSet(att, key, [count |-> 1, resetTime |-> now + windowMs])]
    ELSE IF att[key].count >= maxAttempts
    THEN [allowed |-> FALSE, attempts |-> att]
    ELSE [allowed |-> TRUE, attempts |-> [att EXCEPT ![key].count = @ + 1]]

\* reset(key)
reset(att, key) == MapDelete(att, key)

\* getRemainingTime(key)
getRemainingTime(att, key, now) ==
    IF ~MapHas(att, key) THEN 0
    ELSE IF att[key].resetTime - now > 0 THEN att[key].resetTime - now ELSE 0

\* the calls answered true in the window of the key after an isAllowed(key)
\* that answered allowed: one more when the call fell into the window of
\* the record in force (it was made no later than its resetTime), one when
\* it opened a window
GrantsAfter(key, allowed) ==
    IF ~allowed THEN grants
    ELSE IF MapHas(attempts, key) /\ clock <= attempts[key].resetTime
    THEN [grants EXCEPT ![key] = @ + 1]
    ELSE [grants EXCEPT ![key] = 1]

\* loginRateLimit.isAllowed(key) called on its own
isAllowedCall(key) ==
    LET r == isAllowed(attempts, key, clock)
    IN /\ attempts' = r.attempts
       /\ grants' = GrantsAfter(key, r.allowed)
       /\ ipc' = Request("isAllowed", key, IF r.allowed THEN "true" ELSE "false")
       /\ UNCHANGED <<clock, authenticatedUsers, isAuthenticated, loginPending>>
       /\ UNCHANGED launcherVars

\* loginRateLimit.reset(key) called on its own
resetCall(key) ==
    /\ attempts' = reset(attempts, key)
    /\ grants' = [grants EXCEPT ![key] = 0]
    /\ ipc' = Request("reset", key, "ok")
    /\ UNCHANGED <<clock, authenticatedUsers, isAuthenticated, loginPending>>
    /\ UNCHANGED launcherVars

\* loginRateLimit.getRemainingTime(key) called on its own
getRemainingTimeCall(key) ==
    /\ ipc' = Request("getRemainingTime", key, getRemainingTime(attempts, key, clock))
    /\ UNCHANGED <<attempts, grants, clock, authenticatedUsers, isAuthenticated, loginPending>>
    /\ UNCHANGED launcherVars

\* Date.now() is the clock of the system: it advances, and it can be set back
ClockChange ==
    /\ clock' \in (0..MaxClock) \ {clock}
    /\ ipc' = NoRequest
    /\ UNCHANGED <<attempts, grants, authenticatedUsers, isAuthenticated, loginPending>>
    /\ UNCHANGED launcherVars

NextRateLimit ==
    \/ \E key \in Senders : isAllowedCall(key)
    \/ \E key \in Senders : resetCall(key)
    \/ \E key \in Senders : getRemainingTimeCall(key)
    \/ ClockChange

SpecRateLimit == Init /\ [][NextRateLimit]_vars

----------------------------------------------------------------------------
(* The IPC handlers of F95LauncherApp: auth:*, launcher:launch, launcher:stop *)

\* the auth:login requests of one sender that may be suspended at
\* await authManager.login at the same time
MaxLoginsInFlight == 1

\* requireAuth(event) returns (it throws 'Authentication required' otherwise)
requireAuth(senderId) == senderId \in authenticatedUsers

\* validateInput(gameIdSchema, { gameId }) returns: a positive integer
ValidGameId(gameId) == gameId > 0

\* the gameId arguments of the requests: 3 (in the library, not installed),
\* 0 (not positive) and 9 (positive, not in the library).  launchGame and
\* stopGame return for them without suspending and without a ChildProcess;
\* what the launcher does with the installed games is in Spec
RequestedGameIds == {0, 3, 9}

\* auth:login up to await authManager.login: the rate limit, then the
\* validation of the input
authLogin(senderId, inputValid) ==
    LET r == isAllowed(attempts, senderId, clock)
    IN /\ attempts' = r.attempts
       /\ grants' = GrantsAfter(senderId, r.allowed)
       /\ IF ~r.allowed
          THEN /\ ipc' = Request("auth:login", senderId, "TooManyAttempts")
               /\ UNCHANGED loginPending
          ELSE IF ~inputValid
          THEN /\ ipc' = Request("auth:login", senderId, "ValidationFailed")
               /\ UNCHANGED loginPending
          ELSE /\ loginPending[senderId] < MaxLoginsInFlight
               /\ loginPending' = [loginPending EXCEPT ![senderId] = @ + 1]
               /\ ipc' = Request("auth:login", senderId, "suspended")
       /\ lastOp' = NoOp
       /\ UNCHANGED <<clock, authenticatedUsers, isAuthenticated>>
       /\ UNCHANGED <<runningGames, procs, pending, disk>>

\* auth:login from the completion of authManager.login (which sets
\* isAuthenticated when the site accepted the credentials, and never
\* rejects) to its end
authLoginReturn(senderId, success) ==
    /\ loginPending[senderId] > 0
    /\ loginPending' = [loginPending EXCEPT ![senderId] = @ - 1]
    /\ IF success
       THEN /\ isAuthenticated' = TRUE
            /\ authenticatedUsers' = authenticatedUsers \cup {senderId}
            /\ attempts' = reset(attempts, senderId)
            /\ grants' = [grants EXCEPT ![senderId] = 0]
            /\ ipc' = Request("auth:login:return", senderId, "success")
       ELSE /\ ipc' = Request("auth:login:return", senderId, "failure")
            /\ UNCHANGED <<isAuthenticated, authenticatedUsers, attempts, grants>>
    /\ lastOp' = NoOp
    /\ UNCHANGED clock
    /\ UNCHANGED <<runningGames, procs, pending, disk>>

\* auth:logout
authLogout(senderId) ==
    /\ authenticatedUsers' = authenticatedUsers \ {senderId}
    /\ isAuthenticated' = FALSE
    /\ ipc' = Request("auth:logout", senderId, "ok")
    /\ lastOp' = NoOp
    /\ UNCHANGED <<attempts, grants, clock, loginPending>>
    /\ UNCHANGED <<runningGames, procs, pending, disk>>

\* auth:check
authCheck(senderId) ==
    /\ ipc' = Request("auth:check", senderId,
                      IF isAuthenticated /\ senderId \in authenticatedUsers
                      THEN "true" ELSE "false")
    /\ lastOp' = NoOp
    /\ UNCHANGED <<attempts, grants, clock, authenticatedUsers, isAuthenticated, loginPending>>
    /\ UNCHANGED <<runningGames, procs, pending, disk>>

\* launcher:launch up to the first await of launchGame
launcherLaunch(senderId, gameId) ==
    /\ UNCHANGED <<attempts, grants, clock, authenticatedUsers, isAuthenticated, loginPending>>
    /\ IF ~requireAuth(senderId)
       THEN /\ ipc' = Request("launcher:launch", senderId, "AuthenticationRequired")
            /\ lastOp' = NoOp
            /\ UNCHANGED <<runningGames, procs, pending, disk>>
       ELSE IF ~ValidGameId(gameId)
       THEN /\ ipc' = Request("launcher:launch", senderId, "ValidationFailed")
            /\ lastOp' = NoOp
            /\ UNCHANGED <<runningGames, procs, pending, disk>>
       ELSE IF gameId \notin GameIds
       THEN /\ ipc' = Request("launcher:launch", senderId, "GameNotFound")
            /\ lastOp' = NoOp
            /\ UNCHANGED <<runningGames, procs, pending, disk>>
       ELSE /\ ipc' = Request("launcher:launch", senderId, "called")
            /\ launchGame(CHOOSE k \in DOMAIN Games : Games[k].id = gameId)

\* launcher:stop without the call of requireAuth
launcherStopWithoutAuth(senderId, gameId, outcome) ==
    /\ UNCHANGED <<attempts, grants, clock, authenticatedUsers, isAuthenticated, loginPending>>
    /\ IF ~ValidGameId(gameId)
       THEN /\ outcome = "notKilled"
            /\ ipc' = Request("launcher:stop", senderId, "ValidationFailed")
            /\ lastOp' = NoOp
            /\ UNCHANGED <<runningGames, procs, pending, disk>>
       ELSE /\ ipc' = Request("launcher:stop", senderId, "called")
            /\ stopGame(gameId, outcome)

\* launcher:stop
launcherStop(senderId, gameId, outcome) ==
    /\ UNCHANGED <<attempts, grants, clock, authenticatedUsers, isAuthenticated, loginPending>>
    /\ IF ~requireAuth(senderId)
       THEN /\ outcome = "notKilled"
            /\ ipc' = Request("launcher:stop", senderId, "AuthenticationRequired")
            /\ lastOp' = NoOp
            /\ UNCHANGED <<runningGames, procs, pending, disk>>
       ELSE IF ~ValidGameId(gameId)
       THEN /\ outcome = "notKilled"
            /\ ipc' = Request("launcher:stop", senderId, "ValidationFailed")
            /\ lastOp' = NoOp
            /\ UNCHANGED <<runningGames, procs, pending, disk>>
       ELSE /\ ipc' = Request("launcher:stop", senderId, "called")
            /\ stopGame(gameId, outcome)

\* the requests of the windows and the completions of their logins
NextIpc ==
    \/ \E senderId \in Senders : \E inputValid \in BOOLEAN : authLogin(senderId, inputValid)
    \/ \E senderId \in Senders : \E success \in BOOLEAN : authLoginReturn(senderId, success)
    \/ \E senderId \in Senders : authLogout(senderId)
    \/ \E senderId \in Senders : authCheck(senderId)
    \/ \E senderId \in Senders : \E gameId \in RequestedGameIds :
         launcherLaunch(senderId, gameId)
    \/ \E senderId \in Senders : \E gameId \in RequestedGameIds :
         \E outcome \in KillOutcomes : launcherStop(senderId, gameId, outcome)

SpecIpc == Init /\ [][NextIpc]_vars

----------------------------------------------------------------------------
(* Properties                                                              *)

\* the install path of the game record with this id
InstallPathOf(gameId) ==
    Games[CHOOSE k \in DOMAIN Games : Games[k].id = gameId].installPath

\* the path p, normalized, names the directory root or something below it:
\* the segments of root are the first segments of p
InsideDir(p, root) ==
    LET ps == NormSegs(Split(p), <<>>, p # Empty /\ p[1] = Slash)
        rs == NormSegs(Split(root), <<>>, root # Empty /\ root[1] = Slash)
    IN /\ (p # Empty /\ p[1] = Slash) = (root # Empty /\ root[1] = Slash)
       /\ Len(rs) <= Len(ps)
       /\ SubSeq(ps, 1, Len(rs)) = rs

\* the last step was the second half of a launchGame call
Resumed == lastOp.op = "launchGameResume"

\* C1: a launchGame call spawns and registers only while its gameId is
\* untracked: of two calls for one gameId that are in flight together, one
\* spawns and the other does not (the check of runningGames and the
\* registration are one atomic step).
C1_CheckAndRegisterAtomic ==
    (Resumed /\ lastOp.result = "ok") => ~MapHas(lastOp.before, lastOp.gameId)

C3_RejectsOutside ==
    (lastOp.op = "validateExecutablePath" /\ ~InsideDir(lastOp.path, lastOp.installPath))
        => lastOp.result = "outside"

\* C4: validateExecutablePath rejects every candidate that holds one of the
\* dangerous characters, and a candidate inside the install root, whether or
\* not it names an existing regular file, is rejected for that reason.
C4_RejectsDangerous ==
    (lastOp.op = "validateExecutablePath" /\ Chars(lastOp.path) \cap dangerousChars # {})
        => /\ lastOp.result \in {"outside", "dangerous"}
           /\ InsideDir(lastOp.path, lastOp.installPath) => lastOp.result = "dangerous"

\* /g/a/r;.sh is a regular file of the install /g/a and is rejected
C4_Witness ==
    /\ lastOp.op = "validateExecutablePath"
    /\ lastOp.path = PathJoin(S_rootA, S_bad_sh)
    /\ lastOp.installPath = S_rootA
    /\ PathExists(Disks[disk], lastOp.path)
    /\ Stat(Disks[disk], lastOp.path).kind = "file"
    /\ lastOp.result = "dangerous"

\* C5: after stopGame(gameId) the gameId is not tracked, whether or not
\* process.kill() succeeded.
C5_StopRemovesEntry ==
    lastOp.op = "stopGame" => ~MapHas(runningGames, lastOp.gameId)

\* C6: stopGame never raises to its caller: a failure of process.kill() is
\* logged only.
C6_StopNeverRaises ==
    lastOp.op = "stopGame" => lastOp.result = "ok"

\* C7: after an exit event of a process of a gameId, the tracked one
\* included, the gameId is not tracked; a launchGame call for a gameId that
\* is not tracked is not answered AlreadyRunning; and its second half, when
\* the executable resolves, passes the validation and spawn returns a
\* running child, registers that child under the gameId.
C7_ExitThenLaunch ==
    /\ lastOp.op = "exit" => ~MapHas(runningGames, lastOp.gameId)
    /\ (lastOp.op = "launchGame" /\ ~MapHas(lastOp.before, lastOp.gameId))
            => lastOp.result # "AlreadyRunning"
    /\ Resumed =>
            /\ lastOp.result \in {"ok", "ResolutionFailed", "SecurityViolation", "SpawnFailed"}
            /\ lastOp.result = "ok" =>
                   /\ MapHas(runningGames, lastOp.gameId)
                   /\ runningGames[lastOp.gameId] = lastOp.slot
                   /\ procs[lastOp.slot].gameId = lastOp.gameId
                   /\ procs[lastOp.slot].path = lastOp.path

\* the tracked process of a gameId has just exited
C7_Witness ==
    /\ lastOp.op = "exit"
    /\ MapHas(lastOp.before, lastOp.gameId)
    /\ lastOp.before[lastOp.gameId] = lastOp.slot
    /\ ~MapHas(runningGames, lastOp.gameId)

\* C8: a launchGame call that fails with NotInstalled, AlreadyRunning, a
\* resolution failure or a SecurityViolation creates no ChildProcess and
\* leaves runningGames as it was.
C8_FailedLaunchChangesNothing ==
    [][ (/\ lastOp'.op \in {"launchGame", "launchGameResume"}
         /\ lastOp'.result \in {"NotInstalled", "AlreadyRunning",
                                "ResolutionFailed", "SecurityViolation"})
        => (runningGames' = runningGames /\ procs' = procs) ]_vars

\* a launch is rejected with SecurityViolation while another game is tracked
C8_Witness ==
    /\ Resumed
    /\ lastOp.result = "SecurityViolation"
    /\ runningGames # EmptyMap
    /\ runningGames = lastOp.before

\* C9: when the OS cannot create the child, launchGame fails: a launchGame
\* call that returned successfully has a running child.
C9_SpawnFailureRaises ==
    (Resumed /\ lastOp.result = "ok") => procs[lastOp.slot].state = "running"

\* C10: a gameId becomes tracked only in the second half of a launchGame call
\* for it that got a new ChildProcess from spawn and returned, and a tracked
\* gameId becomes untracked only by an exit event or an error event of one of
\* its processes or by stopGame(gameId); an entry always refers to a
\* ChildProcess, there is no state between tracked and untracked.
C10_EntryLifecycle ==
    [][ /\ \A g \in GameIds :
            /\ (~MapHas(runningGames, g) /\ MapHas(runningGames', g)) =>
                  /\ lastOp'.op = "launchGameResume"
                  /\ lastOp'.gameId = g
                  /\ lastOp'.result = "ok"
                  /\ procs[runningGames'[g]] = NoProc
                  /\ procs'[runningGames'[g]].gameId = g
            /\ (MapHas(runningGames, g) /\ ~MapHas(runningGames', g)) =>
                  /\ lastOp'.op \in {"exit", "error", "stopGame"}
                  /\ lastOp'.gameId = g
        /\ \A g \in DOMAIN runningGames' :
              procs'[runningGames'[g]].state \in {"running", "spawnFailed"}
      ]_vars

\* a query has just been answered and the file system changed under a
\* tracked game without the entry being removed
C10_Witness ==
    /\ lastOp.op \in {"isGameRunning", "getRunningGames", "fsChange"}
    /\ lastOp.before # EmptyMap
    /\ runningGames = lastOp.before

\* C11: stopGame(gameId) for a gameId that is not tracked calls no
\* process.kill(), leaves runningGames and every ChildProcess as they were,
\* and returns normally.
C11_StopUntrackedNoOp ==
    [][ (lastOp'.op = "stopGame" /\ ~MapHas(runningGames, lastOp'.gameId))
        => /\ runningGames' = runningGames
           /\ procs' = procs
           /\ lastOp'.kill = "none"
           /\ lastOp'.result = "ok" ]_vars

\* stopGame was called for an untracked gameId while another game is tracked
C11_Witness ==
    /\ lastOp.op = "stopGame"
    /\ ~MapHas(lastOp.before, lastOp.gameId)
    /\ lastOp.before # EmptyMap
    /\ runningGames = lastOp.before
    /\ lastOp.result = "ok"

\* C12: verifyGameInstallation answers true or false for every record and
\* file system and never raises; it answers false whenever findExecutable
\* rejected (no install path, install path gone, no candidate, the listing or
\* fs.chmod failed), and true only for a resolved path that exists.
C12_VerifyNeverRaises ==
    lastOp.op = "verifyGameInstallation" =>
        /\ lastOp.result \in {"true", "false"}
        /\ lastOp.err # "ok" => lastOp.result = "false"
        /\ lastOp.result = "true" => PathExists(Disks[disk], lastOp.path)

\* the listing of the install directory failed and the answer was false
C12_Witness ==
    /\ lastOp.op = "verifyGameInstallation"
    /\ lastOp.err = "readdir"
    /\ PathExists(Disks[disk], lastOp.installPath)
    /\ lastOp.result = "false"

\* the record the last findExecutable or verifyGameInstallation was called with
CalledGame == ResolveGames[lastOp.gameId]

\* the path p names an entry of the directory root itself
DirectlyInside(p, root) ==
    /\ InsideDir(p, root)
    /\ Len(NormSegs(Split(p), <<>>, TRUE)) = Len(NormSegs(Split(root), <<>>, TRUE)) + 1

\* C16: whatever the order of the listing, in the sorted candidates every
\* start.sh stands before every run.sh, and every run.sh before every
\* candidate whose name has no extension.
C16_StartRunNoExtension ==
    lastOp.op = "findExecutable" =>
        \A i, j \in DOMAIN lastOp.ranked :
            /\ (/\ Basename(lastOp.ranked[i]) = S_start_sh
                /\ Basename(lastOp.ranked[j]) = S_run_sh) => i < j
            /\ (/\ Basename(lastOp.ranked[i]) = S_run_sh
                /\ Dot \notin Chars(Basename(lastOp.ranked[j]))) => i < j

\* C17: when the hint branch is not taken, findExecutable returns the first
\* of the sorted candidates, rejects with "no executable found" exactly when
\* the listing succeeded and there is no candidate, and for an install whose
\* only file is a game.sh with a shebang it returns installPath/game.sh.
C17_ReturnsFirstCandidate ==
    (/\ lastOp.op = "findExecutable"
     /\ ~HintTaken(CalledGame, Disks[disk])
     /\ lastOp.err # "chmod") =>
        /\ (lastOp.err = "noExecutable")
              <=> (ReaddirDone(CalledGame, Disks[disk]) /\ lastOp.ranked = <<>>)
        /\ lastOp.ranked # <<>> =>
              (lastOp.err = "ok" /\ lastOp.path = lastOp.ranked[1])
        /\ (/\ lastOp.listing = <<S_game_sh>>
            /\ ContentMatches(Disks[disk], PathJoin(lastOp.installPath, S_game_sh))) =>
              lastOp.path = PathJoin(lastOp.installPath, S_game_sh)

\* findExecutable resolved the install that holds game.sh only
C17_Witness ==
    /\ lastOp.op = "findExecutable"
    /\ CalledGame.executable = Empty
    /\ lastOp.listing = <<S_game_sh>>
    /\ lastOp.err = "ok"
    /\ lastOp.path = PathJoin(S_rootOne, S_game_sh)

\* C19: a path that findExecutable returns from its hint branch, and every
\* path it applied fs.chmod to there, is an entry of the install directory
\* itself, whatever the hint.
C19_HintStaysInside ==
    (/\ lastOp.op = "findExecutable"
     /\ HintTaken(CalledGame, Disks[disk])
     /\ lastOp.err = "ok") =>
        \A p \in {lastOp.path} \cup lastOp.chmod : DirectlyInside(p, lastOp.installPath)

\* the subdirectories of the search path of the last detectInstalledGames
SubdirsSearched ==
    { PathJoin(Normalize(lastOp.path), name) :
        name \in { n \in ReaddirNames(Disks[disk], lastOp.path) :
                     Stat(Disks[disk], PathJoin(Normalize(lastOp.path), n)).kind = "dir" } }

\* the elements of a list, as a set
Elements(list) == { list[i] : i \in DOMAIN list }

\* C13: when the search path can be listed, every subdirectory of it that
\* can be listed and passes the signature test is in the result, whether the
\* listing had it before or after a subdirectory that cannot be listed.
C13_ScanSkipsUnreadable ==
    (lastOp.op = "detectInstalledGames" /\ Listable(Disks[disk], lastOp.path)) =>
        \A gamePath \in SubdirsSearched :
            (Listable(Disks[disk], gamePath) /\ hasExecutable(Disks[disk], gamePath))
                => gamePath \in Elements(lastOp.returned)

\* C14: detectInstalledGames never raises, and returns the empty list when
\* the search path does not exist or cannot be listed.
C14_DetectNeverRaises ==
    lastOp.op = "detectInstalledGames" =>
        /\ lastOp.result = "ok"
        /\ ~Listable(Disks[disk], lastOp.path) => lastOp.returned = <<>>

\* the search path exists and its listing failed (a plain file, a folder
\* that cannot be read)
C14_Witness ==
    /\ lastOp.op = "detectInstalledGames"
    /\ PathExists(Disks[disk], lastOp.path)
    /\ ~Listable(Disks[disk], lastOp.path)
    /\ lastOp.result = "ok"
    /\ lastOp.returned = <<>>

\* C15: when the search path and all its subdirectories can be listed, the
\* result holds exactly the subdirectories with at least one top-level
\* regular file whose name passes the signature test; plain files of the
\* search path are not in it.
C15_ExactlySignatureDirs ==
    (/\ lastOp.op = "detectInstalledGames"
     /\ Listable(Disks[disk], lastOp.path)
     /\ \A gamePath \in SubdirsSearched : Listable(Disks[disk], gamePath)) =>
        Elements(lastOp.returned) =
            { gamePath \in SubdirsSearched :
                \E file \in ReaddirNames(Disks[disk], gamePath) :
                    /\ Stat(Disks[disk], PathJoin(gamePath, file)).kind = "file"
                    /\ SignatureTest(file) }

\* C18: an exit or error event of a process that is not the tracked one of
\* its gameId (a process stopGame removed from the table, or one whose entry
\* a later launchGame overwrote) leaves the entry of the tracked process in
\* place: the gameId stays tracked, with the same ChildProcess.
C18_LateEventKeepsEntry ==
    (/\ lastOp.op \in {"exit", "error"}
     /\ MapHas(lastOp.before, lastOp.gameId)
     /\ lastOp.before[lastOp.gameId] # lastOp.slot) =>
        /\ MapHas(runningGames, lastOp.gameId)
        /\ runningGames[lastOp.gameId] = lastOp.before[lastOp.gameId]

\* C20: every path a launchGame call applied fs.chmod to is an existing
\* regular file inside the install directory of the game, and the call is
\* not rejected with a SecurityViolation after it changed permissions.
C20_ChmodOnlyValidated ==
    Resumed =>
        \A p \in lastOp.chmod :
            /\ lastOp.result # "SecurityViolation"
            /\ InsideDir(p, lastOp.installPath)
            /\ PathExists(Disks[disk], p)
            /\ Stat(Disks[disk], p).kind = "file"

\* C21: the exit and the error listener remove the entry idempotently: the
\* listener returns normally and its gameId is untracked afterwards, and
\* when the gameId was untracked already (stopGame removed the entry, or the
\* other event of the child did) the listener leaves runningGames as it was.
C21_ListenersIdempotent ==
    lastOp.op \in {"exit", "error"} =>
        /\ lastOp.result = "ok"
        /\ ~MapHas(runningGames, lastOp.gameId)
        /\ ~MapHas(lastOp.before, lastOp.gameId) => runningGames = lastOp.before

\* a child exited after stopGame had removed its entry, while another game
\* is tracked
C21_Witness ==
    /\ lastOp.op = "exit"
    /\ procs[lastOp.slot] = NoProc
    /\ ~MapHas(lastOp.before, lastOp.gameId)
    /\ lastOp.before # EmptyMap
    /\ runningGames = lastOp.before

\* C22: launchGame does not wait for the child: when a launchGame call
\* returns successfully the ChildProcess it created has emitted neither exit
\* nor error, the gameId is tracked with that ChildProcess, and the listener
\* of the event the child will emit is registered (the event can be
\* delivered from this state on).
C22_LaunchReturnsBeforeExit ==
    (Resumed /\ lastOp.result = "ok") =>
        /\ MapHas(runningGames, lastOp.gameId)
        /\ runningGames[lastOp.gameId] = lastOp.slot
        /\ procs[lastOp.slot].state \in {"running", "spawnFailed"}
        /\ ENABLED (exitListener(lastOp.slot) \/ errorListener(lastOp.slot))

\* a launchGame call returned while the child it spawned is running and
\* another launchGame call is still suspended
C22_Witness ==
    /\ Resumed
    /\ lastOp.result = "ok"
    /\ procs[lastOp.slot].state = "running"
    /\ runningGames[lastOp.gameId] = lastOp.slot
    /\ InFlight > 0

\* C23: a launchGame call, stopGame and an exit or error event of a process
\* change the entry of no gameId but their own, whatever else is in flight;
\* isGameRunning and getRunningGames leave runningGames as it is, and
\* getRunningGames returns exactly the tracked gameIds.
C23_OtherGamesUntouched ==
    [][ /\ lastOp'.op \in {"launchGame", "launchGameResume", "stopGame", "exit", "error"} =>
            \A g \in GameIds \ {lastOp'.gameId} :
                /\ MapHas(runningGames', g) = MapHas(runningGames, g)
                /\ MapHas(runningGames, g) => runningGames'[g] = runningGames[g]
        /\ lastOp'.op \in {"isGameRunning", "getRunningGames", "fsChange"} =>
                runningGames' = runningGames
        /\ lastOp'.op = "getRunningGames" => lastOp'.ids = DOMAIN runningGames
      ]_vars

\* stopGame removed the entry of one game while another game is tracked and
\* a launchGame call is suspended
C23_Witness ==
    /\ lastOp.op = "stopGame"
    /\ MapHas(lastOp.before, lastOp.gameId)
    /\ ~MapHas(runningGames, lastOp.gameId)
    /\ runningGames # EmptyMap
    /\ InFlight > 0

\* C25: validateExecutablePath reports the earliest check that fails, in the
\* order prefix of the install path, dangerous characters, existence,
\* regular file: a path that fails the prefix test is answered "outside"
\* whatever else is wrong with it, a path that passes it and holds a
\* dangerous character is answered "dangerous" whether or not it exists and
\* whatever it names, and "missing" and "notFile" are answered only for
\* paths that pass both tests.
C25_EarliestFailureReported ==
    lastOp.op = "validateExecutablePath" =>
        LET prefixFails == ~StartsWith(Normalize(lastOp.path), Normalize(lastOp.installPath))
            charsFail == Chars(lastOp.path) \cap dangerousChars # {}
            existsFails == ~PathExists(Disks[disk], Normalize(lastOp.path))
            isFileFails == /\ ~existsFails
                           /\ Stat(Disks[disk], Normalize(lastOp.path)).kind # "file"
        IN /\ prefixFails => lastOp.result = "outside"
           /\ (~prefixFails /\ charsFail) => lastOp.result = "dangerous"
           /\ (~prefixFails /\ ~charsFail /\ existsFails) => lastOp.result = "missing"
           /\ (~prefixFails /\ ~charsFail /\ isFileFails) => lastOp.result = "notFile"
           /\ lastOp.result = "ok" =>
                  ~(prefixFails \/ charsFail \/ existsFails \/ isFileFails)

\* /etc/x; lies outside the install root, holds ';' and does not exist: it
\* is answered "outside"
C25_Witness ==
    /\ lastOp.op = "validateExecutablePath"
    /\ lastOp.path = S_etc_x \o <<";">>
    /\ lastOp.installPath = S_rootA
    /\ ~PathExists(Disks[disk], lastOp.path)
    /\ lastOp.result = "outside"

\* the priority the specification gives a candidate: the first of its rules
\* that the file name satisfies, 7 when none does
NamePriority(file) ==
    LET name == Basename(file)
    IN IF Includes(name, S_start) THEN 1
       ELSE IF Includes(name, S_launcher) THEN 2
       ELSE IF Includes(name, S_game) THEN 3
       ELSE IF Includes(name, S_run) THEN 4
       ELSE IF Extname(name) \in {S_ext_exe, S_ext_sh} THEN 5
       ELSE IF Dot \notin Chars(name) THEN 6
       ELSE 7

\* x put into a list sorted by NamePriority, behind its equals
RECURSIVE InsertByName(_, _)
InsertByName(x, sorted) ==
    IF sorted = <<>> THEN <<x>>
    ELSE IF NamePriority(x) < NamePriority(Head(sorted)) THEN <<x>> \o sorted
    ELSE <<Head(sorted)>> \o InsertByName(x, Tail(sorted))

\* the stable sort of a list by NamePriority
RECURSIVE RankByName(_, _)
RankByName(rest, sorted) ==
    IF rest = <<>> THEN sorted
    ELSE RankByName(Tail(rest), InsertByName(Head(rest), sorted))

\* the candidates of the last findExecutable in the order of their
\* discovery: the well-known names, then the listing
Discovered ==
    CommonHits(Disks[disk], Normalize(lastOp.installPath),
               commonExecutables(Normalize(lastOp.installPath)))
    \o ScanHits(Disks[disk], Normalize(lastOp.installPath), lastOp.listing)

\* C24: the sorted candidates are the discovered candidates ordered by one
\* priority taken from the file name (start, launcher, game, run, .exe or
\* .sh, no extension), candidates of equal priority in the order of their
\* discovery.
C24_SinglePriorityFromName ==
    (lastOp.op = "findExecutable" /\ ReaddirDone(CalledGame, Disks[disk])) =>
        lastOp.ranked = RankByName(Discovered, <<>>)

\* C26: the sorted candidates of findExecutable hold no path twice.
C26_NoDuplicateCandidates ==
    lastOp.op = "findExecutable" =>
        \A i, j \in DOMAIN lastOp.ranked :
            lastOp.ranked[i] = lastOp.ranked[j] => i = j

\* C27: no directory is among the candidates; a file of the listing that
\* cannot be read is no candidate unless it bears one of the well-known
\* names (which are not sniffed); the failure to read it does not make
\* findExecutable reject, which answers with the first of the candidates
\* that remain, or "no executable found" when none does.
C27_UnreadableFileIsNoMatch ==
    (lastOp.op = "findExecutable" /\ ReaddirDone(CalledGame, Disks[disk])) =>
        LET gamePath == Normalize(lastOp.installPath)
        IN /\ \A p \in Elements(lastOp.ranked) : Stat(Disks[disk], p).kind = "file"
           /\ \A file \in Elements(lastOp.listing) :
                 (/\ Stat(Disks[disk], PathJoin(gamePath, file)).content = "unreadable"
                  /\ file \notin Elements(commonExecutables(gamePath)))
                    => PathJoin(gamePath, file) \notin Elements(lastOp.ranked)
           /\ lastOp.err \in {"ok", "noExecutable", "chmod"}
           /\ lastOp.err = "ok" => lastOp.path = lastOp.ranked[1]
           /\ lastOp.err = "noExecutable" <=> lastOp.ranked = <<>>

\* the listing of /g/b holds the file play, which cannot be read, and a
\* directory-free rest: findExecutable returned /g/b/run.sh
C27_Witness ==
    /\ lastOp.op = "findExecutable"
    /\ lastOp.installPath = S_rootB
    /\ S_play \in Elements(lastOp.listing)
    /\ Stat(Disks[disk], PathJoin(S_rootB, S_play)).content = "unreadable"
    /\ lastOp.err = "ok"
    /\ lastOp.path = PathJoin(S_rootB, S_run_sh)

\* C28: when verifyGameInstallation answers true for an installed record,
\* the path it resolved, which launchGame resolves for the same record on
\* the same file system, passes validateExecutablePath: launchGame is not
\* rejected with a SecurityViolation.
C28_VerifiedIsLaunchable ==
    (/\ lastOp.op = "verifyGameInstallation"
     /\ lastOp.result = "true"
     /\ CalledGame.installed) =>
        validateExecutablePath(lastOp.path, lastOp.installPath, Disks[disk]) = "ok"

\* C29: the count stored for a key never exceeds maxAttempts; of the
\* isAllowed(key) calls that fall into one window of the key, with no
\* reset(key) between them, at most maxAttempts are answered true; and while
\* the count of a key stands at maxAttempts and its window has not expired,
\* isAllowed(key) answers false and changes nothing.
C29_AtMostMaxAttempts ==
    [][ /\ \A key \in DOMAIN attempts' : attempts'[key].count <= maxAttempts
        /\ \A key \in Senders : grants'[key] <= maxAttempts
        /\ \A key \in Senders :
              (/\ ipc'.channel = "isAllowed"
               /\ ipc'.senderId = key
               /\ MapHas(attempts, key)
               /\ attempts[key].count >= maxAttempts
               /\ clock <= attempts[key].resetTime)
                 => (ipc'.result = "false" /\ attempts' = attempts)
      ]_vars

\* isAllowed has just refused a key that was allowed maxAttempts times in
\* its window, which has not expired, while the window of the other key is
\* not used up
C29_Witness ==
    /\ ipc.channel = "isAllowed"
    /\ ipc.result = "false"
    /\ MapHas(attempts, ipc.senderId)
    /\ attempts[ipc.senderId].count = maxAttempts
    /\ grants[ipc.senderId] = maxAttempts
    /\ clock <= attempts[ipc.senderId].resetTime
    /\ \E key \in DOMAIN attempts : attempts[key].count < maxAttempts

====
